---- MODULE Spec2Model ----
(***************************************************************************)
(* Model of test/example-runner.py of SPIRV-Interpreter: the harness that  *)
(* walks the examples tree, groups each directory's files into numbered    *)
(* run configurations, runs the interpreter once per configuration that    *)
(* checks an output, and exits with the number of failures.                *)
(*                                                                         *)
(* File names and command-line arguments are sequences of one-character    *)
(* strings, so that startswith, endswith, find, slicing, int() and str()   *)
(* are computed the way Python computes them.                              *)
(***************************************************************************)
EXTENDS Integers, Sequences, FiniteSets, TLC

VARIABLES
    env,        \* the environment of one run: interpreter built?, tree, collaborator
    pc,         \* position of the script
    todo,       \* directories os.walk has not yielded yet
    root,       \* the directory being processed (os.walk's root)
    files,      \* its file list, as os.walk yielded it (line 71 reuses the name)
    pos,        \* number of entries of files the grouping loop has taken
    program,    \* program (None or a file name)
    configs,    \* configs, a dict kept in insertion order
    error,      \* error
    ci,         \* 1-based position of the iteration over configs.items()
    total,      \* total
    fails,      \* fails
    exitCode,   \* exit status of the process (NoExit while it runs)
    exc,        \* uncaught exception that ended the process ("none" if none)
    printed,    \* lines printed since the current directory was entered
    xLines,     \* number of failure lines ("X ...") printed so far
    nInvoked,   \* number of subprocess.run calls started so far
    inv,        \* the last subprocess.run call of the current directory
    ran,        \* config numbers run in the current directory, in order
    runNo,      \* 1 for the first run of the harness, 2 for a repeated run
    prev,       \* result of the first run, once a second run has started
    probe       \* one call of extract_num on its own

vars == << env, pc, todo, root, files, pos, program, configs, error, ci, total,
           fails, exitCode, exc, printed, xLines, nInvoked, inv, ran, runNo,
           prev, probe >>

(***************************************************************************)
(* Bounds of the model.                                                    *)
(***************************************************************************)
MaxFiles == 3        \* files in one directory of the unconstrained tree
MaxN == 12           \* largest config number given to extract_num on its own
MaxTreeFiles == 3    \* files in one directory of a tree walked twice
LongConfigs == 256   \* run configurations of the one long directory

(***************************************************************************)
(* Python values.                                                          *)
(***************************************************************************)
None == << >>        \* no file name is empty, so the empty name stands for None
NoExit == 0 - 1
NoBytes == "-"

Digits == << "0", "1", "2", "3", "4", "5", "6", "7", "8", "9" >>

IsDigit(c) == \E d \in 1..Len(Digits) : Digits[d] = c

DigitVal(c) == (CHOOSE d \in 1..Len(Digits) : Digits[d] = c) - 1

\* str(n) for a non-negative integer n
RECURSIVE str(_)
str(n) == IF n < 10 THEN << Digits[n + 1] >>
          ELSE str(n \div 10) \o << Digits[(n % 10) + 1] >>

\* value of a non-empty string of decimal digits, most significant first
RECURSIVE DigitsVal(_)
DigitsVal(s) == IF Len(s) = 0 THEN 0
                ELSE 10 * DigitsVal(SubSeq(s, 1, Len(s) - 1)) + DigitVal(s[Len(s)])

AllDigits(s) == Len(s) > 0 /\ \A k \in 1..Len(s) : IsDigit(s[k])

\* int(s): an optional sign and decimal digits, ValueError on anything else
int(s) ==
    IF AllDigits(s) THEN [ok |-> TRUE, val |-> DigitsVal(s)]
    ELSE IF Len(s) > 1 /\ s[1] \in {"+", "-"} /\ AllDigits(Tail(s))
         THEN [ok |-> TRUE,
               val |-> IF s[1] = "-" THEN 0 - DigitsVal(Tail(s)) ELSE DigitsVal(Tail(s))]
         ELSE [ok |-> FALSE, val |-> 0]

startswith(name, prefix) ==
    Len(name) >= Len(prefix) /\ SubSeq(name, 1, Len(prefix)) = prefix

endswith(name, suffix) ==
    Len(name) >= Len(suffix)
    /\ SubSeq(name, Len(name) - Len(suffix) + 1, Len(name)) = suffix

\* name.find(ch, start): the lowest 0-based index >= start holding ch, else -1
find(name, ch, start) ==
    LET hits == { k \in start..(Len(name) - 1) : name[k + 1] = ch }
    IN  IF hits = {} THEN -1 ELSE CHOOSE k \in hits : \A j \in hits : k <= j

\* name[lo:hi] for 0 <= lo <= hi <= len(name)
slice(name, lo, hi) == SubSeq(name, lo + 1, hi)

\* A mutant of extract_num: the suffix runs to the last '.' of the name.
extract_num_last_dot(name, prefix) ==
    LET pref_len == Len(prefix)
        hits == { k \in pref_len..(Len(name) - 1) : name[k + 1] = "." }
        dot == IF hits = {} THEN Len(name)
               ELSE CHOOSE k \in hits : \A j \in hits : k >= j
    IN  IF dot = pref_len THEN [ok |-> TRUE, val |-> 0]
        ELSE int(slice(name, pref_len, dot))

extract_num(name, prefix) ==
    LET pref_len == Len(prefix)
        found == find(name, ".", pref_len)
        dot == IF found = -1 THEN Len(name) ELSE found
    IN  IF dot = pref_len THEN [ok |-> TRUE, val |-> 0]
        ELSE int(slice(name, pref_len, dot))

\* check_file, with seen the bytes the read of out_file returns
check_file(out_file, seen, stdout) ==
    IF out_file = None THEN TRUE ELSE seen = stdout

(***************************************************************************)
(* Names.                                                                  *)
(***************************************************************************)
InPrefix == << "i", "n" >>
OutPrefix == << "o", "u", "t" >>
PrintPrefix == << "p", "r", "i", "n", "t" >>
file_types == << InPrefix, OutPrefix, PrintPrefix >>
SPV == << ".", "s", "p", "v" >>
BIN == << ".", "b", "i", "n" >>
interp_path == << "s", "p", "i", "r", "v", "-", "r", "u", "n" >>
FlagI == << "-", "i" >>
FlagC == << "-", "c" >>

p_spv == << "p" >> \o SPV
in_spv == InPrefix \o SPV
in1_a == InPrefix \o << "1", ".", "a" >>
out_x == OutPrefix \o << ".", "x" >>
out0_y == OutPrefix \o << "0", ".", "y" >>
print0_bin == PrintPrefix \o << "0" >> \o BIN
print1_bin == PrintPrefix \o << "1" >> \o BIN
index_spv == << "i", "n", "d", "e", "x" >> \o SPV
notes_txt == << "n", "o", "t", "e", "s", ".", "t", "x", "t" >>

\* the file names a directory of the unconstrained tree can hold
Names == { p_spv, in_spv, in1_a, out_x, out0_y, print0_bin, print1_bin, index_spv,
           notes_txt }

\* the file names a directory of a tree walked twice can hold
TreeNames == { p_spv, out_x, out0_y, print1_bin }

Root == "."
Subdirs == { "a", "b" }
Dirs == { Root } \cup Subdirs

Bytes == { "5", "6" }
RetCodes == { 0, 1 }

\* the orders a directory listing can come in
Perms(S) ==
    { s \in [1..Cardinality(S) -> S] : \A i, j \in 1..Cardinality(S) : s[i] = s[j] => i = j }

AllListings ==
    UNION { Perms(S) : S \in { T \in SUBSET Names : Cardinality(T) <= MaxFiles } }

\* the listings os.walk can yield for directory d
Listings(d) ==
    CASE env.fs[d].kind = "any" -> AllListings
      [] env.fs[d].kind = "set" -> Perms(env.fs[d].names)
      [] OTHER -> { env.fs[d].names }


\* what subprocess.run can return for the argument vector cmd
Run(cmd) ==
    IF env.collab.kind = "any" THEN [returncode : RetCodes, stdout : Bytes]
    ELSE { [returncode |-> IF \E k \in 1..Len(cmd) : cmd[k] = FlagC
                           THEN env.collab.rcCompare ELSE env.collab.rcPlain,
            stdout |-> env.collab.stdout] }

\* what reading the expected-output file out_file can return
Read(out_file) ==
    IF out_file = None THEN { NoBytes }
    ELSE IF env.collab.kind = "any" THEN Bytes ELSE { env.collab.expected }

\* exit(n): the status the parent process sees is the low 8 bits of n
ExitStatusRange == 256
ExitStatus(n) == n % ExitStatusRange

(***************************************************************************)
(* configs: a dict from config number to a list of one slot per file type, *)
(* iterated in insertion order.                                            *)
(***************************************************************************)
HasKey(cs, num) == \E k \in 1..Len(cs) : cs[k].num = num

KeyIndex(cs, num) == CHOOSE k \in 1..Len(cs) : cs[k].num = num

EmptySlots == [i \in 1..Len(file_types) |-> None]

CollisionLine(i) == [kind |-> "collision", config |-> i - 1, role |-> file_types[i]]

\* The body of "for file in files", from file type i on: the loop over the
\* file types and its else clause, which runs unless the loop was left by break.
RECURSIVE classify(_, _, _)
classify(file, i, st) ==
    IF i > Len(file_types)
    THEN [st EXCEPT !.program = IF endswith(file, SPV) THEN file ELSE @]
    ELSE IF startswith(file, file_types[i])
         THEN LET num == extract_num(file, file_types[i])
                  cs == IF HasKey(st.configs, num.val) THEN st.configs
                        ELSE Append(st.configs, [num |-> num.val, files |-> EmptySlots])
                  k == KeyIndex(cs, num.val)
              IN  IF ~num.ok THEN [st EXCEPT !.raised = TRUE]
                  ELSE IF cs[k].files[i] # None
                       THEN [st EXCEPT !.configs = cs, !.error = TRUE,
                                       !.lines = Append(@, CollisionLine(i))]
                       ELSE classify(file, i + 1,
                                [st EXCEPT !.configs = [cs EXCEPT ![k].files[i] = file]])
         ELSE classify(file, i + 1, st)

\* A mutant of BuildRun: the print file is passed to the interpreter as well.
RECURSIVE BuildRunPrintFlag(_, _, _)
BuildRunPrintFlag(slots, i, acc) ==
    IF i > Len(slots) THEN acc
    ELSE IF slots[i] = None THEN BuildRunPrintFlag(slots, i + 1, acc)
    ELSE BuildRunPrintFlag(slots, i + 1,
            CASE i = 1 -> [acc EXCEPT !.cmd = @ \o << FlagI, slots[i] >>]
              [] i = 2 -> [acc EXCEPT !.output = TRUE, !.cmd = @ \o << FlagC, slots[i] >>]
              [] i = 3 -> [acc EXCEPT !.output = TRUE, !.out_file = slots[i],
                                      !.cmd = @ \o << FlagC, slots[i] >>]
              [] OTHER -> acc)

\* "for i, file in enumerate(files)" with its match statement, from slot i on
RECURSIVE BuildRun(_, _, _)
BuildRun(slots, i, acc) ==
    IF i > Len(slots) THEN acc
    ELSE IF slots[i] = None THEN BuildRun(slots, i + 1, acc)
    ELSE BuildRun(slots, i + 1,
            CASE i = 1 -> [acc EXCEPT !.cmd = @ \o << FlagI, slots[i] >>]
              [] i = 2 -> [acc EXCEPT !.output = TRUE, !.cmd = @ \o << FlagC, slots[i] >>]
              [] i = 3 -> [acc EXCEPT !.output = TRUE, !.out_file = slots[i]]
              [] OTHER -> acc)

\* A mutant of Failed: only the exit code decides.
FailedExitCodeOnly(res, out_file, seen) == res.returncode # 0

\* the condition of "if res.returncode != 0 or not check_file(...)"
Failed(res, out_file, seen) ==
    res.returncode # 0 \/ ~check_file(out_file, seen, res.stdout)

\* A mutant of tally: every executed configuration is counted as a failure.
tally_always_fails(t, f, failed) == [total |-> t + 1, fails |-> f + 1]

\* lines 89-92: "total += 1" and, for a failing configuration, "fails += 1"
tally(t, f, failed) == [total |-> t + 1, fails |-> IF failed THEN f + 1 ELSE f]

\* where the script goes when the loop over a directory's files has ended
AfterGrouping(prog, cs) == IF prog # None /\ Len(cs) > 0 THEN "exec" ELSE "enddir"


(***************************************************************************)
(* The state at process start, for the environment e.                      *)
(***************************************************************************)
NoInv == [num |-> 0, slots |-> EmptySlots, prog |-> None, cmd |-> << >>, returncode |-> 0,
          stdout |-> NoBytes, expected |-> NoBytes, failed |-> FALSE, runs |-> 0]

NoPrev == [total |-> 0, fails |-> 0, exitCode |-> NoExit]

NoProbe == [prefix |-> None, n |-> 0, name |-> None, form |-> "none", done |-> FALSE,
            res |-> [ok |-> TRUE, val |-> 0]]

Start(e) ==
    /\ env = e
    /\ todo = Dirs
    /\ root = Root
    /\ files = << >>
    /\ pos = 0
    /\ program = None
    /\ configs = << >>
    /\ error = FALSE
    /\ ci = 0
    /\ total = 0
    /\ fails = 0
    /\ exitCode = NoExit
    /\ exc = "none"
    /\ printed = << >>
    /\ xLines = 0
    /\ nInvoked = 0
    /\ inv = NoInv
    /\ ran = << >>

AnyCollab == [kind |-> "any", rcCompare |-> 0, rcPlain |-> 0, stdout |-> NoBytes,
              expected |-> NoBytes]

FixedCollabs == [kind : { "fixed" }, rcCompare : RetCodes, rcPlain : RetCodes,
                 stdout : Bytes, expected : { "5" }]

\* a tree about which nothing is known: every directory can hold any listing
AnyTree == [d \in Dirs |-> [kind |-> "any", names |-> << >>]]

Init ==
    /\ \E b \in BOOLEAN : Start([interp |-> b, fs |-> AnyTree, collab |-> AnyCollab])
    /\ pc = "start"
    /\ runNo = 1
    /\ prev = NoPrev
    /\ probe = NoProbe

(***************************************************************************)
(* Lines 9-14: the interpreter must have been built.                       *)
(***************************************************************************)
Setup ==
    /\ pc = "start"
    /\ IF env.interp
       THEN /\ pc' = "walk"
            /\ UNCHANGED << exitCode, printed >>
       ELSE /\ pc' = "done"
            /\ exitCode' = ExitStatus(1)
            /\ printed' = printed \o << [kind |-> "no interpreter"], [kind |-> "looking at"] >>
    /\ UNCHANGED << env, todo, root, files, pos, program, configs, error, ci, total,
                    fails, exc, xLines, nInvoked, inv, ran, runNo, prev, probe >>

(***************************************************************************)
(* Line 48-51: os.walk, top down, yields the next directory and its files. *)
(***************************************************************************)
Walk ==
    /\ pc = "walk"
    /\ \E d \in todo :
         /\ d = Root \/ Root \notin todo
         /\ \E listing \in Listings(d) :
              /\ root' = d
              /\ files' = listing
              /\ todo' = todo \ { d }
              /\ pc' = IF Len(listing) > 0 THEN "group" ELSE AfterGrouping(None, << >>)
    /\ pos' = 0
    /\ program' = None
    /\ configs' = << >>
    /\ error' = FALSE
    /\ ci' = 1
    /\ printed' = << >>
    /\ inv' = NoInv
    /\ ran' = << >>
    /\ UNCHANGED << env, total, fails, exitCode, exc, xLines, nInvoked, runNo, prev, probe >>

(***************************************************************************)
(* Lines 52-68: one iteration of "for file in files".                      *)
(***************************************************************************)
Group ==
    /\ pc = "group"
    /\ pos < Len(files)
    /\ LET st == classify(files[pos + 1], 1,
                    [configs |-> configs, program |-> program, error |-> error,
                     raised |-> FALSE, lines |-> printed])
       IN  /\ pos' = pos + 1
           /\ configs' = st.configs
           /\ program' = st.program
           /\ error' = st.error
           /\ printed' = st.lines
           /\ IF st.raised
              THEN /\ exc' = "ValueError"
                   /\ exitCode' = ExitStatus(1)
                   /\ pc' = "done"
              ELSE /\ UNCHANGED << exc, exitCode >>
                   /\ pc' = IF st.error \/ pos + 1 = Len(files)
                            THEN AfterGrouping(st.program, st.configs)
                            ELSE "group"
    /\ UNCHANGED << env, todo, root, files, ci, total, fails, xLines, nInvoked, inv, ran,
                    runNo, prev, probe >>

(***************************************************************************)
(* Lines 71-97: one iteration of "for num, files in configs.items()".      *)
(***************************************************************************)
XLine(num) ==
    [kind |-> "X", path |-> << root, program >>,
     num |-> IF Len(configs) > 1 THEN << num >> ELSE << >>]

Exec ==
    /\ pc = "exec"
    /\ ci <= Len(configs)
    /\ LET cfg == configs[ci]
           b == BuildRun(cfg.files, 1,
                    [cmd |-> << interp_path, program >>, output |-> FALSE, out_file |-> None])
       IN  IF b.output
           THEN \E res \in Run(b.cmd), seen \in Read(b.out_file) :
                  LET failed == Failed(res, b.out_file, seen)
                      t == tally(total, fails, failed)
                  IN  /\ total' = t.total
                      /\ nInvoked' = nInvoked + 1
                      /\ ran' = Append(ran, cfg.num)
                      /\ inv' = [num |-> cfg.num, slots |-> cfg.files, prog |-> program,
                                 cmd |-> b.cmd, returncode |-> res.returncode,
                                 stdout |-> res.stdout, expected |-> seen,
                                 failed |-> t.fails # fails, runs |-> inv.runs + 1]
                      /\ fails' = t.fails
                      /\ xLines' = IF failed THEN xLines + 1 ELSE xLines
                      /\ printed' = IF failed THEN Append(printed, XLine(cfg.num))
                                    ELSE printed
           ELSE UNCHANGED << total, nInvoked, ran, inv, fails, xLines, printed >>
    /\ ci' = ci + 1
    /\ pc' = IF ci = Len(configs) THEN "enddir" ELSE "exec"
    /\ UNCHANGED << env, todo, root, files, pos, program, configs, error, exitCode, exc,
                    runNo, prev, probe >>

(***************************************************************************)
(* Line 48: the body of the os.walk loop has ended and control returns to  *)
(* the loop head.  The directory's variables are dead from here on (lines  *)
(* 49-51 rebind program, configs and error before any use), so they take   *)
(* their initial values at once.                                           *)
(***************************************************************************)
EndDir ==
    /\ pc = "enddir"
    /\ pc' = "walk"
    /\ files' = << >>
    /\ pos' = 0
    /\ program' = None
    /\ configs' = << >>
    /\ error' = FALSE
    /\ ci' = 0
    /\ printed' = << >>
    /\ inv' = NoInv
    /\ ran' = << >>
    /\ UNCHANGED << env, todo, root, total, fails, exitCode, exc, xLines, nInvoked, runNo,
                    prev, probe >>

(***************************************************************************)
(* Lines 99-109: the results, once os.walk is exhausted.                   *)
(***************************************************************************)
Report ==
    /\ pc = "walk"
    /\ todo = { }
    /\ pc' = "done"
    /\ IF total = 0
       THEN /\ printed' = Append(printed, [kind |-> "No tests run!"])
            /\ exitCode' = ExitStatus(1)
       ELSE /\ printed' = Append(printed,
                              [kind |-> IF fails = 0 THEN "PASS" ELSE "FAIL",
                               passed |-> total - fails, total |-> total])
            /\ exitCode' = ExitStatus(fails)
    /\ UNCHANGED << env, todo, root, files, pos, program, configs, error, ci, total,
                    fails, exc, xLines, nInvoked, inv, ran, runNo, prev, probe >>

Next == Setup \/ Walk \/ Group \/ Exec \/ EndDir \/ Report

Spec == Init /\ [][Next]_vars


(***************************************************************************)
(* The harness run twice over one tree with one collaborator: the tree is  *)
(* fixed at the start, each listing comes in any order, and the            *)
(* collaborator's answer is a function of its argument vector.             *)
(***************************************************************************)
SmallDirs == { S \in SUBSET TreeNames : Cardinality(S) <= MaxTreeFiles }

FixedTrees ==
    { [d \in Dirs |-> [kind |-> "set", names |-> IF d = Root THEN { } ELSE t[d]]] :
        t \in [Subdirs -> SmallDirs] }

InitTwice ==
    /\ \E b \in BOOLEAN, t \in FixedTrees, c \in FixedCollabs :
         Start([interp |-> b, fs |-> t, collab |-> c])
    /\ pc = "start"
    /\ runNo = 1
    /\ prev = NoPrev
    /\ probe = NoProbe

\* the harness is started again: lines 9-43 run anew in a new process
Rerun ==
    /\ pc = "done"
    /\ runNo = 1
    /\ runNo' = 2
    /\ prev' = [total |-> total, fails |-> fails, exitCode |-> exitCode]
    /\ pc' = "start"
    /\ todo' = Dirs
    /\ root' = Root
    /\ files' = << >>
    /\ pos' = 0
    /\ program' = None
    /\ configs' = << >>
    /\ error' = FALSE
    /\ ci' = 0
    /\ total' = 0
    /\ fails' = 0
    /\ exitCode' = NoExit
    /\ exc' = "none"
    /\ printed' = << >>
    /\ xLines' = 0
    /\ nInvoked' = 0
    /\ inv' = NoInv
    /\ ran' = << >>
    /\ UNCHANGED << env, probe >>

NextTwice == Next \/ Rerun

SpecTwice == InitTwice /\ [][NextTwice]_vars

(***************************************************************************)
(* The harness over a tree whose root holds a program and LongConfigs      *)
(* compare files, out0.x, out1.x, ..., listed in that order.               *)
(***************************************************************************)
LongFiles ==
    << p_spv >> \o [k \in 1..LongConfigs |-> OutPrefix \o str(k - 1) \o << ".", "x" >>]

LongTree ==
    [d \in Dirs |-> [kind |-> "list", names |-> IF d = Root THEN LongFiles ELSE << >>]]

InitLong ==
    /\ \E b \in BOOLEAN, c \in FixedCollabs :
         Start([interp |-> b, fs |-> LongTree, collab |-> c])
    /\ pc = "start"
    /\ runNo = 1
    /\ prev = NoPrev
    /\ probe = NoProbe

SpecLong == InitLong /\ [][Next]_vars

(***************************************************************************)
(* extract_num on its own, on the names a role prefix, a number and an     *)
(* extension make.                                                         *)
(***************************************************************************)
Exts == { << "a" >>, << "s", "p", "v" >>, << "t", ".", "g" >>, << >> }

ProbeName(prefix, n, ext, form) ==
    CASE form = "number.ext" -> prefix \o str(n) \o << "." >> \o ext
      [] form = ".ext" -> prefix \o << "." >> \o ext
      [] form = "number" -> prefix \o str(n)
      [] OTHER -> prefix

Probes ==
    { [prefix |-> file_types[i], n |-> n, name |-> ProbeName(file_types[i], n, ext, "number.ext"),
       form |-> "number.ext", done |-> FALSE, res |-> [ok |-> TRUE, val |-> 0]] :
        i \in 1..Len(file_types), n \in 0..MaxN, ext \in Exts }
    \cup
    { [prefix |-> file_types[i], n |-> 0, name |-> ProbeName(file_types[i], 0, ext, ".ext"),
       form |-> ".ext", done |-> FALSE, res |-> [ok |-> TRUE, val |-> 0]] :
        i \in 1..Len(file_types), ext \in Exts }
    \cup
    { [prefix |-> file_types[i], n |-> n, name |-> ProbeName(file_types[i], n, << >>, "number"),
       form |-> "number", done |-> FALSE, res |-> [ok |-> TRUE, val |-> 0]] :
        i \in 1..Len(file_types), n \in 0..MaxN }
    \cup
    { [prefix |-> file_types[i], n |-> 0, name |-> file_types[i],
       form |-> "bare", done |-> FALSE, res |-> [ok |-> TRUE, val |-> 0]] :
        i \in 1..Len(file_types) }

InitProbe ==
    /\ Start([interp |-> TRUE, fs |-> AnyTree, collab |-> AnyCollab])
    /\ pc = "probe"
    /\ runNo = 1
    /\ prev = NoPrev
    /\ probe \in Probes

\* lines 24-31: one call extract_num(name, prefix)
ExtractNum ==
    /\ pc = "probe"
    /\ ~probe.done
    /\ probe' = [probe EXCEPT !.res = extract_num(probe.name, probe.prefix), !.done = TRUE]
    /\ UNCHANGED << env, pc, todo, root, files, pos, program, configs, error, ci, total,
                    fails, exitCode, exc, printed, xLines, nInvoked, inv, ran, runNo, prev >>

SpecProbe == InitProbe /\ [][ExtractNum]_vars


(***************************************************************************)
(* Notions the properties are stated in.                                   *)
(***************************************************************************)
Last(seq) == seq[Len(seq)]

Count(seq, x) == Cardinality({ k \in 1..Len(seq) : seq[k] = x })

Without(seq, k) == SubSeq(seq, 1, k - 1) \o SubSeq(seq, k + 1, Len(seq))

MatchesRole(name, i) == startswith(name, file_types[i])

\* a program file in the sense of the specification: no role prefix, and ".spv"
IsProgramFile(name) ==
    endswith(name, SPV) /\ \A i \in 1..Len(file_types) : ~MatchesRole(name, i)

\* the listing holds a file of role i for config number n
HoldsRole(listing, i, n) ==
    \E k \in 1..Len(listing) :
        /\ MatchesRole(listing[k], i)
        /\ extract_num(listing[k], file_types[i]) = [ok |-> TRUE, val |-> n]

\* the config numbers the names of a listing carry
NumsOf(listing) ==
    { extract_num(listing[e[1]], file_types[e[2]]).val :
        e \in { f \in (1..Len(listing)) \X (1..Len(file_types)) :
                    MatchesRole(listing[f[1]], f[2]) } }

\* the grouping loop over a whole listing, and the config numbers then run
RECURSIVE GroupFrom(_, _, _)
GroupFrom(listing, k, st) ==
    IF k > Len(listing) \/ st.error \/ st.raised THEN st
    ELSE GroupFrom(listing, k + 1, classify(listing[k], 1, st))

GroupAll(listing) ==
    GroupFrom(listing, 1, [configs |-> << >>, program |-> None, error |-> FALSE,
                           raised |-> FALSE, lines |-> << >>])

RECURSIVE RunsFrom(_, _)
RunsFrom(cs, k) ==
    IF k > Len(cs) THEN << >>
    ELSE (IF BuildRun(cs[k].files, 1, [cmd |-> << >>, output |-> FALSE, out_file |-> None]).output
          THEN << cs[k].num >> ELSE << >>) \o RunsFrom(cs, k + 1)

RunsOf(listing) ==
    LET st == GroupAll(listing)
    IN  IF st.program = None THEN << >> ELSE RunsFrom(st.configs, 1)

Finished == pc = "done" /\ exc = "none" /\ env.interp

(***************************************************************************)
(* C1: when the walk has completed, the harness exits with 1 and "No tests *)
(* run!" if total = 0, and otherwise with an exit code equal to fails, so  *)
(* that the exit code is 0 exactly when nothing failed, printing PASS iff  *)
(* fails = 0 (else FAIL) with total - fails and total.                     *)
(***************************************************************************)
C1_ExitCodeIsFails ==
    Finished =>
        IF total = 0
        THEN exitCode = 1 /\ Last(printed).kind = "No tests run!"
        ELSE /\ exitCode = fails
             /\ (exitCode = 0 <=> fails = 0)
             /\ Last(printed).kind = (IF fails = 0 THEN "PASS" ELSE "FAIL")
             /\ Last(printed).passed = total - fails
             /\ Last(printed).total = total

(***************************************************************************)
(* C2: an executed configuration is counted as a failure iff the exit code *)
(* is non-zero, or it holds a print file and the captured standard output  *)
(* differs from that file's bytes.                                         *)
(***************************************************************************)
C2_FailIffExitOrMismatch ==
    inv.runs > 0 =>
        (inv.failed <=>
            (inv.returncode # 0 \/ (inv.slots[3] # None /\ inv.stdout # inv.expected)))

C2_Witness ==
    /\ inv.runs > 0
    /\ inv.returncode = 0
    /\ inv.slots[3] # None
    /\ inv.stdout # inv.expected
    /\ inv.failed
    /\ fails > 0

(***************************************************************************)
(* C3: when a directory is done, the interpreter has been invoked for a    *)
(* config number exactly once if the directory has a program file and an   *)
(* out or print file of that number, and not at all otherwise.             *)
(***************************************************************************)
C3_InvokedIffProgramAndCheck ==
    pc = "enddir" =>
        \A n \in NumsOf(files) \cup { ran[k] : k \in 1..Len(ran) } :
            Count(ran, n) =
                IF /\ \E k \in 1..Len(files) : IsProgramFile(files[k])
                   /\ (HoldsRole(files, 2, n) \/ HoldsRole(files, 3, n))
                THEN 1 ELSE 0

(***************************************************************************)
(* C4: the program file matches no role prefix and ends with ".spv"; a     *)
(* directory holding just in.spv, print0.bin and print1.bin has no program *)
(* file and runs nothing.                                                  *)
(***************************************************************************)
C4_ProgramMatchesNoRole ==
    /\ program # None => IsProgramFile(program)
    /\ (pc = "enddir" /\ { files[k] : k \in 1..Len(files) } = { in_spv, print0_bin, print1_bin })
           => (program = None /\ ran = << >>)

(***************************************************************************)
(* C5: after a collision the first-seen file is kept, the collision is     *)
(* reported, every later file of the directory is still classified, and    *)
(* the directory runs the configurations it would run without the          *)
(* colliding file.                                                         *)
(***************************************************************************)
C5_CollisionKeepsClassifying ==
    (error /\ pc \in { "exec", "enddir" }) =>
        /\ \E k \in 1..Len(printed) : printed[k].kind = "collision"
        /\ pos = Len(files)
        /\ pc = "enddir" => ran = RunsOf(Without(files, pos))

(***************************************************************************)
(* C6: a name with a role prefix and a non-integer suffix does not crash   *)
(* the harness: a run ends only with the final report, with "No tests      *)
(* run!" or with the missing-interpreter message.                          *)
(***************************************************************************)
C6_NoCrashOnSuffix ==
    pc = "done" =>
        /\ exc = "none"
        /\ Last(printed).kind \in { "PASS", "FAIL", "No tests run!", "looking at" }

(***************************************************************************)
(* C7: a second run over the same tree with the same collaborator ends     *)
(* with the same total, the same fails and the same exit code as the       *)
(* first, whatever the order of directories and of files.                  *)
(***************************************************************************)
C7_SameResultTwice ==
    (runNo = 2 /\ pc = "done") =>
        /\ total = prev.total
        /\ fails = prev.fails
        /\ exitCode = prev.exitCode

(***************************************************************************)
(* C8: extract_num gives n for prefix + str(n) + "." + ext and for         *)
(* prefix + str(n), and 0 for prefix + "." + ext and for the bare prefix.  *)
(***************************************************************************)
C8_ExtractNum ==
    probe.done =>
        /\ probe.res.ok
        /\ probe.res.val = (IF probe.form \in { "number.ext", "number" } THEN probe.n ELSE 0)

C8_Witness ==
    /\ probe.done
    /\ probe.form = "number.ext"
    /\ probe.n > 9
    /\ probe.name = PrintPrefix \o << "1", "2", ".", "t", ".", "g" >>
    /\ probe.res = [ok |-> TRUE, val |-> 12]

C10_TallyCounts ==
    /\ [](/\ total = nInvoked
          /\ fails = xLines
          /\ 0 <= fails
          /\ fails <= total)
    /\ [][/\ total' \in { total, total + 1 }
          /\ fails' \in { fails, fails + 1 }
          /\ total' = total + 1 => (pc = "exec" /\ inv'.runs = inv.runs + 1)
          /\ fails' = fails + 1 =>
                /\ total' = total + 1
                /\ printed' = Append(printed, Last(printed'))
                /\ Last(printed').kind = "X"
          /\ (total' = total + 1 /\ fails' = fails) => printed' = printed]_vars

C10_Witness ==
    /\ total >= 2
    /\ fails >= 1
    /\ fails < total
    /\ todo = { }

====
